---------------------------- MODULE Spec2Model ----------------------------
(***************************************************************************)
(* A model of BoutonCount.py: the two-step bouton detector (a             *)
(* morphological "proposal" search followed by a classifier               *)
(* "verification"), its three renderers and the per-section / per-brain   *)
(* drivers count_section and count_brain.                                  *)
(*                                                                         *)
(* A numpy array of shape (rows, cols) is the record                       *)
(*     [rows |-> n, cols |-> m, at |-> [<<i, j>> |-> value]]               *)
(* indexed from 0 as in the source, so that the source's index arithmetic  *)
(* (x - RADIUS, negative slice bounds, ...) is kept as written.            *)
(***************************************************************************)
EXTENDS Integers, Sequences, FiniteSets, TLC

(***************************************************************************)
(* Constants.py is imported by BoutonCount.py (line 7) but is not part of  *)
(* the sources at hand.  The specification fixes SIZE = 2 * RADIUS; the    *)
(* value of RADIUS is scaled down to 1 so that images of a few pixels per  *)
(* side have an interior.                                                  *)
(***************************************************************************)
RADIUS == 1

SIZE == 2 * RADIUS

\* ------------------------------------------------------------------ arrays

\* An optional value (python's None or a value) is a sequence of length 0 or 1.
None == <<>>

Some(v) == <<v>>

The(o) == o[1]

Idx(n, m) == (0 .. n - 1) \X (0 .. m - 1)

\* (f @@ <<>> is f, held by TLC as a table rather than as an unevaluated
\* function constructor.)
Arr(n, m, f) == [rows |-> n, cols |-> m, at |-> f @@ <<>>]

Values(a) == {a.at[p] : p \in Idx(a.rows, a.cols)}

Shape(a) == <<a.rows, a.cols>>

SetMax(S) == CHOOSE x \in S : \A y \in S : y <= x

SetMin(S) == CHOOSE x \in S : \A y \in S : x <= y

\* ----------------------------------------------------------- normalisation

\* astype(np.uint8) of a NaN is undefined behaviour of the C cast; the value
\* the build produces is one of these (every pixel of a flat image gets the
\* same one, the cast being the same instruction on the same bit pattern).
NanCastOutcomes == {0, 255}

\* arr = (arr - arr.min()) / (arr.max() - arr.min()) on a non-empty array:
\* NaN everywhere when max = min (0/0 is a RuntimeWarning in numpy, not an
\* exception), the quotient otherwise; then (arr * 255).astype(np.uint8)
\* truncates.  The floating-point result equals the exact floor for every
\* range below 600, in float32 and in float64 arithmetic alike.
Rescale(a, nanCast) ==
    LET lo == SetMin(Values(a))
        hi == SetMax(Values(a))
    IN  Arr(a.rows, a.cols,
            [p \in Idx(a.rows, a.cols) |->
                IF hi = lo THEN nanCast
                ELSE ((a.at[p] - lo) * 255) \div (hi - lo)])

IsFlat(a) == Cardinality(Values(a)) = 1

\* ------------------------------------------------------ proposal algorithm

\* scipy's boundary mode "reflect" (d c b a | a b c d | d c b a), the default
\* of gaussian_filter, grey_dilation and grey_erosion.
ReflectIdx(i, n) == LET p == i % (2 * n) IN IF p < n THEN p ELSE 2 * n - 1 - p

\* gaussian_filter(float_arr, sigma=1): a separable kernel of radius
\* int(4.0 * sigma + 0.5) = 4 with weights exp(-k^2 / 2), normalised.  The
\* weights are held in fixed point, as hundredths (1, .61, .14, .01, .0003),
\* and the normalisation is left out: every smoothed value is the float one
\* times GaussScale, which the comparisons below account for.
GaussRadius == 4

GaussWeight(k) ==
    LET d == IF k < 0 THEN -k ELSE k
    IN  CASE d = 0 -> 100 [] d = 1 -> 61 [] d = 2 -> 14 [] d = 3 -> 1 [] OTHER -> 0

GaussTaps == -GaussRadius .. GaussRadius

RECURSIVE SumOver(_, _)
SumOver(S, f) ==
    IF S = {} THEN 0
    ELSE LET x == CHOOSE x \in S : TRUE IN f[x] + SumOver(S \ {x}, f)

GaussNorm == SumOver(GaussTaps, [k \in GaussTaps |-> GaussWeight(k)])

GaussScale == GaussNorm * GaussNorm

\* One pass of the kernel along a line: line[i] is the sample at offset i
\* from the pixel, i in GaussTaps.
Correlate(line) ==
    GaussWeight(0) * line[0]
        + GaussWeight(1) * (line[-1] + line[1])
        + GaussWeight(2) * (line[-2] + line[2])
        + GaussWeight(3) * (line[-3] + line[3])
        + GaussWeight(4) * (line[-4] + line[4])

gaussian_filter(a) ==
    LET n == a.rows
        m == a.cols
        alongRows == Arr(n, m, [p \in Idx(n, m) |->
            Correlate([k \in GaussTaps |-> a.at[<<ReflectIdx(p[1] + k, n), p[2]>>]])])
        alongCols == Arr(n, m, [p \in Idx(n, m) |->
            Correlate([k \in GaussTaps |-> alongRows.at[<<p[1], ReflectIdx(p[2] + k, m)>>]])])
    IN  alongCols

\* scipy.ndimage.grey_erosion(arr, size=(scale, scale)): the minimum over the
\* window [i - scale/2, i + scale - scale/2 - 1] on each axis.
scale == 4

grey_erosion(a) ==
    Arr(a.rows, a.cols, [p \in Idx(a.rows, a.cols) |->
        SetMin({a.at[<<ReflectIdx(p[1] + di, a.rows), ReflectIdx(p[2] + dj, a.cols)>>] :
                    di \in -(scale \div 2) .. (scale - scale \div 2 - 1),
                    dj \in -(scale \div 2) .. (scale - scale \div 2 - 1)})])

\* scipy.ndimage.grey_dilation(arr, size=(scale, scale)): the maximum; for an
\* even size scipy moves the origin by one, the window is
\* [i - scale/2 + 1, i + scale - scale/2].
grey_dilation(a) ==
    Arr(a.rows, a.cols, [p \in Idx(a.rows, a.cols) |->
        SetMax({a.at[<<ReflectIdx(p[1] + di, a.rows), ReflectIdx(p[2] + dj, a.cols)>>] :
                    di \in -(scale \div 2) + 1 .. (scale - scale \div 2),
                    dj \in -(scale \div 2) + 1 .. (scale - scale \div 2)})])

\* A python slice [lo:hi] of an axis of length n with lo, hi any integers:
\* negative bounds count from the end, and both are clipped to the axis.
SliceBound(b, n) == IF b < 0 THEN (IF b + n < 0 THEN 0 ELSE b + n)
                    ELSE (IF b > n THEN n ELSE b)

Slice(lo, hi, n) == SliceBound(lo, n) .. SliceBound(hi, n) - 1

\* x[:RADIUS] and x[-RADIUS:] as index sets of an axis of length n.
HeadBand(n) == Slice(0, RADIUS, n)

TailBand(n) == Slice(-RADIUS, n, n)

\* A faulty variant of BorderBand: the band is cleared on the first axis only
\* (lines 111-112 left out).
BorderBandRowsOnly(n, m) ==
    {p \in Idx(n, m) : p[1] \in HeadBand(n) \/ p[1] \in TailBand(n)}

BorderBand(n, m) ==
    {p \in Idx(n, m) : \/ p[1] \in HeadBand(n) \/ p[1] \in TailBand(n)
                       \/ p[2] \in HeadBand(m) \/ p[2] \in TailBand(m)}

\* The positions np.where(x) returns, as a set; `a` is the smoothed array in
\* GaussScale units, so `arr < dilated - .01` reads
\* 100 * arr < 100 * dilated - GaussScale.  mask is None or Some boolean array
\* of the same shape (count_section has compared the shapes).
MinimaSet(a, mask) ==
    LET eroded  == grey_erosion(a)
        dilated == grey_dilation(a)
    IN  {p \in Idx(a.rows, a.cols) :
            /\ a.at[p] = eroded.at[p]
            /\ 100 * a.at[p] < 100 * dilated.at[p] - GaussScale
            /\ (mask # None => The(mask).at[p])
            /\ p \notin BorderBand(a.rows, a.cols)}

\* np.where walks the array in row-major order.
Scan(n, m) == [k \in 1 .. n * m |-> <<(k - 1) \div m, (k - 1) % m>>]

detect_local_minima(a, mask) ==
    LET x == MinimaSet(a, mask)
        IsSet(p) == p \in x
    IN  SelectSeq(Scan(a.rows, a.cols), IsSet)

\* arr[x - RADIUS:x + RADIUS, y - RADIUS:y + RADIUS]: the patch of one
\* candidate, as the array the slice yields (clipped by numpy when a bound
\* leaves the image).
PatchAt(a, c) ==
    LET rs == Slice(c[1] - RADIUS, c[1] + RADIUS, a.rows)
        cs == Slice(c[2] - RADIUS, c[2] + RADIUS, a.cols)
        r0 == SliceBound(c[1] - RADIUS, a.rows)
        c0 == SliceBound(c[2] - RADIUS, a.cols)
    IN  Arr(Cardinality(rs), Cardinality(cs),
            [p \in Idx(Cardinality(rs), Cardinality(cs)) |->
                a.at[<<r0 + p[1], c0 + p[2]>>]])

\* local_minima_generate_points(arr, mask): the candidates and one patch per
\* candidate, or the AssertionError of line 121; X[i, :, :, 0] = patch raises
\* ValueError unless the patch is SIZE x SIZE.
local_minima_generate_points(a, mask) ==
    LET minima == detect_local_minima(gaussian_filter(a), mask)
        X == [i \in 1 .. Len(minima) |-> PatchAt(a, minima[i])]
    IN  IF Len(minima) = 0 THEN [err |-> Some("AssertionError"), X |-> <<>>, minima |-> <<>>]
        ELSE IF \E i \in 1 .. Len(minima) : Shape(X[i]) # <<SIZE, SIZE>>
        THEN [err |-> Some("ValueError"), X |-> <<>>, minima |-> <<>>]
        ELSE [err |-> None, X |-> X, minima |-> minima]

\* ------------------------------------------------------------ verification

\* Classifier scores are held in hundredths: 80 is the 0.80 of line 277.
Threshold == 80

\* A faulty variant of Accepted: the comparison is not strict.
AcceptedOrEqual(score) == score >= Threshold

\* output[:, 0] > 0.80, for one score.
Accepted(score) == score > Threshold

\* COMs[keep, :], numpy's boolean-mask indexing of the rows of COMs: the rows
\* whose flag is set, in their order.
RECURSIVE BooleanIndex(_, _)
BooleanIndex(rows, keep) ==
    IF rows = <<>> THEN <<>>
    ELSE (IF Head(keep) THEN <<Head(rows)>> ELSE <<>>)
             \o BooleanIndex(Tail(rows), Tail(keep))

\* An ndarray of numbers with its number of dimensions: `data` is the list
\* of rows (ndim 2), the list of numbers (ndim 1) or the one number (ndim 0).
NdArray(ndim, data) == [ndim |-> ndim, data |-> data]

\* true_cells = COMs[output[:, 0] > 0.80, :]
SelectTrueCells(minima, output) ==
    NdArray(2, BooleanIndex(minima, [i \in 1 .. Len(output) |-> Accepted(output[i])]))

\* ------------------------------------------------------------ tabular file

\* A text file of numbers is the list of its rows, each the list of its
\* columns.  np.savetxt(output_csv, true_cells, delimiter=","): a 2-D array is
\* written row by row, a 1-D array as one column, anything else is refused.
savetxt(cells) ==
    CASE cells.ndim = 2 -> [err |-> None, file |-> cells.data]
      [] cells.ndim = 1 -> [err |-> None,
                            file |-> [i \in 1 .. Len(cells.data) |-> <<cells.data[i]>>]]
      [] OTHER -> [err |-> Some("ValueError"), file |-> <<>>]

\* np.loadtxt(output_csv, delimiter=","): the rows as a 2-D float array, then
\* (ndmin = 0) squeezed, so an axis of length one disappears; an empty file
\* is an empty 1-D array; rows of different lengths are refused.
loadtxt(file) ==
    IF file = <<>> THEN [err |-> None, arr |-> NdArray(1, <<>>)]
    ELSE IF \E i \in 1 .. Len(file) : Len(file[i]) # Len(file[1])
    THEN [err |-> Some("ValueError"), arr |-> NdArray(1, <<>>)]
    ELSE IF Len(file) = 1 /\ Len(file[1]) = 1
    THEN [err |-> None, arr |-> NdArray(0, file[1])]
    ELSE IF Len(file) = 1
    THEN [err |-> None, arr |-> NdArray(1, file[1])]
    ELSE IF Len(file[1]) = 1
    THEN [err |-> None, arr |-> NdArray(1, [i \in 1 .. Len(file) |-> file[i][1]])]
    ELSE [err |-> None, arr |-> NdArray(2, file)]

\* .astype(np.int16) of a float64: a value of the int16 range is kept; the
\* cast of any other value is undefined in C, and the builds yield either
\* the low 16 bits (two's complement) or the "integer indefinite" -32768.
Int16CastOutcomes == {"wrap", "indefinite"}

Int16Cast(v, outcome) ==
    IF -32768 <= v /\ v <= 32767 THEN v
    ELSE IF outcome = "wrap" THEN ((v + 32768) % 65536) - 32768
    ELSE -32768

AsInt16(a, outcome) ==
    CASE a.ndim = 2 -> NdArray(2, [i \in 1 .. Len(a.data) |->
                          [j \in 1 .. Len(a.data[i]) |-> Int16Cast(a.data[i][j], outcome)]])
      [] OTHER -> NdArray(a.ndim, [i \in 1 .. Len(a.data) |-> Int16Cast(a.data[i], outcome)])

\* true_cells.shape[0]: an IndexError for a 0-d array.
HasShape0(cells) == cells.ndim >= 1

Shape0(cells) == Len(cells.data)

\* true_cells[i, 1] and true_cells[i, 0] (i counted from 0) are defined for a
\* 2-D array only: "too many indices" is an IndexError.
CanIndex2(cells) == cells.ndim = 2

\* ------------------------------------------------------------- CreatePNG

radius == 3

\* self.symbol_shape: the offsets set by the double loop of __init__.
symbol_shape ==
    {q \in (0 .. radius * 2) \X (0 .. radius * 2) :
        (q[1] - radius) * (q[1] - radius) + (q[2] - radius) * (q[2] - radius)
            <= radius * radius}

\* CreatePNG.__init__(name, artboard_size_xy): self.arr is all False; the
\* canvas is held as the set of its True pixels.
CreatePNG(shape) == [x |-> shape[1], y |-> shape[2], arr |-> {}]

\* numpy broadcasting of one axis: the lengths agree or one of them is 1.
Broadcasts(n, m) == n = m \/ n = 1 \/ m = 1

BroadcastLen(n, m) == IF n = 1 THEN m ELSE n

\* A faulty variant of add_symbol: the slice is clamped to the canvas and the
\* part of the disk inside it is drawn.
add_symbol_clamped(png, location_xy) ==
    LET y == location_xy[1]
        x == location_xy[2]
    IN  [png EXCEPT !.arr = @ \cup
            {p \in Idx(png.x, png.y) :
                <<p[1] - x + radius, p[2] - y + radius>> \in symbol_shape}]

\* CreatePNG.add_symbol(location_xy): the slice of self.arr is or-ed with the
\* symbol and assigned back; the ValueError numpy raises when the shapes do
\* not fit (at the or, or at the assignment) is swallowed.
add_symbol(png, location_xy) ==
    LET y  == location_xy[1]
        x  == location_xy[2]
        rs == Slice(x - radius, x + radius + 1, png.x)
        cs == Slice(y - radius, y + radius + 1, png.y)
        n  == Cardinality(rs)
        m  == Cardinality(cs)
        side == radius * 2 + 1
        r0 == SliceBound(x - radius, png.x)
        c0 == SliceBound(y - radius, png.y)
        orFits     == Broadcasts(n, side) /\ Broadcasts(m, side)
        assignFits == /\ BroadcastLen(n, side) \in {n, 1}
                      /\ BroadcastLen(m, side) \in {m, 1}
    IN  IF orFits /\ assignFits
        THEN [png EXCEPT !.arr = @ \cup {<<r0 + q[1], c0 + q[2]>> : q \in symbol_shape}]
        ELSE png

\* The body of the loops of lines 286-287 and 281-282: add_symbol for each
\* row of true_cells, with (column, row) as location_xy.
RECURSIVE AddSymbols(_, _)
AddSymbols(png, rows) ==
    IF rows = <<>> THEN png
    ELSE AddSymbols(add_symbol(png, <<Head(rows)[2], Head(rows)[1]>>), Tail(rows))

\* CreatePNG.output(): the RGBA image, held as its size and its opaque pixels
\* (downscale is 1 at the only call).
PNGFile(png) == [rows |-> png.x, cols |-> png.y, opaque |-> png.arr]

\* ------------------------------------------------------------- CreateSVG

\* CreateSVG: the viewBox is (shape[1], shape[0]); one circle per symbol with
\* cx, cy = location_xy.
SVGFile(shape, rows) ==
    [viewBox |-> <<shape[2], shape[1]>>,
     circles |-> [i \in 1 .. Len(rows) |-> [cx |-> rows[i][2], cy |-> rows[i][1]]]]

\* ------------------------------------------------- files of a section

\* An image file is held as the array file_to_array returns for it: decoded,
\* channels summed, cast to int16 (the codec is outside this model).
Img(n, m, dark, lo, hi) == Arr(n, m, [p \in Idx(n, m) |-> IF p \in dark THEN lo ELSE hi])

ImgFlat == Img(3, 3, {}, 7, 7)

ImgEdge == Img(3, 3, {<<0, 0>>}, 20, 200)

ImgSpot == Img(4, 3, {<<2, 1>>}, 20, 200)

ImgTwo == Img(3, 7, {<<1, 1>>, <<1, 5>>}, 0, 255)

TileA == Img(3, 2, {<<1, 1>>}, 20, 200)

TileB == Img(3, 2, {}, 20, 200)

MaskSpot == Img(4, 3, {<<0, 0>>}, 0, 255)

MaskWrongShape == Img(3, 3, {}, 0, 255)

\* A directory entry of a brain: a plain file, or a section directory with
\*   png, jpg, tif  Image.png, Image.jpg, Image.tif (None when absent)
\*   tiles          the files os.listdir gives whose name holds "ome" or
\*                  "IMAGE" and ends in .tif or png, sorted; readable or not
\*   deepTif        a .tif below the directory that only os.walk finds
\*   maskPng        Mask.png
\*   csv, svg, boutonsPng   BoutonCount.csv, Boutons.svg, Boutons.png
Dir(png, jpg, tif, tiles, readable, deepTif, maskPng) ==
    [isdir |-> TRUE, png |-> png, jpg |-> jpg, tif |-> tif, tiles |-> tiles,
     readable |-> readable, deepTif |-> deepTif, maskPng |-> maskPng,
     csv |-> None, svg |-> None, boutonsPng |-> None]

PlainFile == [Dir(None, None, None, <<>>, TRUE, None, None) EXCEPT !.isdir = FALSE]

\* The number of entries of the brain directory.
NumSections == 2

\* The directory entries the model draws a brain from: the brain's entries
\* are consecutive entries of this list, from any of them on.
Entries ==
    << Dir(None, None, None, <<>>, TRUE, None, None),
       Dir(None, Some(ImgTwo), None, <<>>, TRUE, None, None),
       Dir(Some(ImgSpot), None, None, <<>>, TRUE, None, Some(MaskWrongShape)),
       Dir(None, None, None, <<>>, TRUE, Some(ImgSpot), Some(MaskSpot)),
       Dir(Some(ImgFlat), None, None, <<>>, TRUE, None, None),
       PlainFile,
       Dir(None, None, None, <<TileA, TileB>>, TRUE, None, None),
       Dir(Some(ImgEdge), None, None, <<>>, TRUE, None, None),
       Dir(None, None, None, <<TileA, TileB>>, FALSE, None, None) >>

Brain(first) ==
    [i \in 1 .. NumSections |-> Entries[((first + i - 2) % Len(Entries)) + 1]]

\* The number of program runs.
MaxRuns == 2

\* The scores model.predict may give a patch, in hundredths.
ScoreSamples == {79, 80, 81}

OutputFormats == {"svg", "png", "csv"}

\* ------------------------------------------------------------------ state

VARIABLES
    fs,            \* the brain directory: entry number -> its files
    oft,           \* OutputFileType: the set of requested formats
    mode,          \* "brain" (--brain) or "section" (--section)
    todo,          \* count_brain: the entries its loop has not reached
    cur,           \* the section count_section is working on
    pc,            \* where the program is
    arr,           \* count_section's arr (None or Some array)
    mask,          \* count_section's mask
    X,             \* the patch batch
    COMs,          \* the candidates
    output,        \* the scores model.predict returned
    true_cells,    \* the accepted candidates (None or Some ndarray)
    err,           \* the exception that ended the program (None or Some name)
    runs,          \* program runs started so far
    predictCalls,  \* history: model.predict calls of this count_section call
    predictBatch,  \* history: the batch of the last model.predict call
    written,       \* history: the outputs this count_section call has written
    visited,       \* history: the sections this program run has entered
    cached,        \* history: BoutonCount.csv existed when this call began
    prior,         \* history: the value of done[cur] when this call began
    done,          \* history: per section, "any" when a call with a format
                   \* requested ran to its end, "csv" when one with csv did
    saved,         \* history: per section, the array last given to np.savetxt
    canvas,        \* the raster renderer's CreatePNG object
    symbols        \* history: the set of locations given to add_symbol

vars == <<fs, oft, mode, todo, cur, pc, arr, mask, X, COMs, output, true_cells,
          err, runs, predictCalls, predictBatch, written, visited, cached,
          prior, done, saved, canvas, symbols>>

locals == <<arr, mask, X, COMs, output, true_cells>>

history == <<predictCalls, predictBatch, written, cached, prior>>

render == <<canvas, symbols>>

kept == <<done, saved>>

NoCanvas == CreatePNG(<<0, 0>>)

\* The state in which count_section is entered.
EnterSection(s) ==
    /\ cur' = s
    /\ pc' = "load"
    /\ arr' = None /\ mask' = None /\ X' = <<>> /\ COMs' = <<>>
    /\ output' = <<>> /\ true_cells' = None
    /\ predictCalls' = 0 /\ predictBatch' = <<>> /\ written' = {}
    /\ cached' = (fs[s].csv # None)
    /\ prior' = done[s]
    /\ canvas' = NoCanvas /\ symbols' = {}

\* An exception nothing catches: it leaves count_section, count_brain and
\* the program.
Raise(name) == pc' = "crashed" /\ err' = Some(name)

\* `return`, or the end of count_section.
Return == pc' = "returned" /\ err' = err

Sections == 1 .. NumSections

\* What no part of the program has touched yet.
Fresh ==
    /\ mode = "brain" /\ todo = <<>> /\ X = <<>> /\ COMs = <<>>
    /\ output = <<>> /\ true_cells = None /\ err = None /\ runs = 0
    /\ predictCalls = 0 /\ predictBatch = <<>> /\ written = {} /\ visited = <<>>
    /\ cached = FALSE /\ prior = {} /\ done = [s \in Sections |-> {}]
    /\ saved = [s \in Sections |-> None]
    /\ symbols = {}

\* The program has not been started; the brain directory holds entries the
\* program has not seen.
Init ==
    /\ Fresh
    /\ \E first \in 1 .. Len(Entries) : fs = Brain(first)
    /\ oft = {} /\ cur = 0 /\ pc = "idle"
    /\ arr = None /\ mask = None /\ canvas = NoCanvas

\* ---------------------------------------------------------------- __main__

\* python BoutonCount.py --brain DIR [-p] [-s] [-c]: a new run of the
\* program, after the previous one has ended.
StartBrain(flags) ==
    /\ pc \in {"idle", "crashed"} /\ runs < MaxRuns
    /\ runs' = runs + 1 /\ oft' = flags /\ mode' = "brain"
    /\ todo' = [i \in Sections |-> i]      \* sorted(os.listdir(brain_directory))
    /\ pc' = "brain" /\ err' = None /\ visited' = <<>> /\ cur' = 0
    /\ arr' = None /\ mask' = None /\ X' = <<>> /\ COMs' = <<>>
    /\ output' = <<>> /\ true_cells' = None
    /\ predictCalls' = 0 /\ predictBatch' = <<>> /\ written' = {}
    /\ cached' = FALSE /\ prior' = {}
    /\ canvas' = NoCanvas /\ symbols' = {}
    /\ UNCHANGED <<fs, kept>>

\* python BoutonCount.py --section DIR [-p] [-s] [-c]
StartSection(flags, s) ==
    /\ pc \in {"idle", "crashed"} /\ runs < MaxRuns
    /\ fs[s].isdir
    /\ runs' = runs + 1 /\ oft' = flags /\ mode' = "section"
    /\ todo' = <<>> /\ err' = None
    /\ visited' = <<s>> /\ EnterSection(s)
    /\ UNCHANGED <<fs, kept>>

\* count_brain: one turn of its loop (on entry, or when count_section has
\* returned): the next entry is skipped unless it is a directory; the
\* program ends after the last one.  In --section mode the program ends
\* when count_section returns.
CountBrain ==
    /\ pc \in {"brain", "returned"}
    /\ err' = err /\ UNCHANGED <<fs, oft, mode, runs, kept>>
    /\ IF mode = "section" \/ todo = <<>>
       THEN /\ pc' = "idle" /\ todo' = <<>> /\ cur' = 0
            /\ arr' = None /\ mask' = None /\ X' = <<>> /\ COMs' = <<>>
            /\ output' = <<>> /\ true_cells' = None
            /\ predictCalls' = 0 /\ predictBatch' = <<>> /\ written' = {}
            /\ cached' = FALSE /\ prior' = {} /\ visited' = <<>>
            /\ canvas' = NoCanvas /\ symbols' = {}
       ELSE /\ todo' = Tail(todo)
            /\ IF fs[Head(todo)].isdir
               THEN /\ EnterSection(Head(todo))
                    /\ visited' = Append(visited, Head(todo))
               ELSE /\ pc' = "brain"
                    /\ UNCHANGED <<cur, locals, history, visited, render>>

\* ------------------------------------------------------------ count_section

\* np.concatenate(arrs, axis): None when the other axis does not agree
\* (numpy raises ValueError).
RECURSIVE Concatenate(_, _)
Concatenate(arrs, axis) ==
    IF Len(arrs) = 1 THEN Some(arrs[1])
    ELSE LET a == arrs[1]
             rest == Concatenate(Tail(arrs), axis)
         IN  IF rest = None THEN None
             ELSE LET b == The(rest)
                  IN  IF axis = 1
                      THEN IF a.rows # b.rows THEN None
                           ELSE Some(Arr(a.rows, a.cols + b.cols,
                                    [p \in Idx(a.rows, a.cols + b.cols) |->
                                        IF p[2] < a.cols THEN a.at[p]
                                        ELSE b.at[<<p[1], p[2] - a.cols>>]]))
                      ELSE IF a.cols # b.cols THEN None
                           ELSE Some(Arr(a.rows + b.rows, a.cols,
                                    [p \in Idx(a.rows + b.rows, a.cols) |->
                                        IF p[1] < a.rows THEN a.at[p]
                                        ELSE b.at[<<p[1] - a.rows, p[2]>>]]))

\* Lines 201-206: the loop over "png", "jpg", "tif"; it has no break, so the
\* image of the last extension that exists stays in arr, rescaled.
LoopImage(d, nanCast) ==
    LET raw == IF d.tif # None THEN d.tif ELSE IF d.jpg # None THEN d.jpg ELSE d.png
    IN  IF raw = None THEN None ELSE Some(Rescale(The(raw), nanCast))

\* Lines 215-218: os.walk(directory, topdown=False) reads every .tif, the
\* directory's own last; the last one read stays in arr.
WalkImage(d, before) ==
    IF d.tif # None THEN d.tif ELSE IF d.deepTif # None THEN d.deepTif ELSE before

\* Lines 199-230.  The loop's else clause runs whenever the loop ends (it
\* always does): the tiles, when there are any, replace what the loop read.
LoadImages ==
    /\ pc = "load"
    /\ LET d == fs[cur] IN
       \E nanCast \in NanCastOutcomes :
         LET looped == LoopImage(d, nanCast) IN
         IF d.tiles = <<>>
         THEN /\ arr' = WalkImage(d, looped)
              /\ pc' = "normalize" /\ err' = err
         ELSE IF ~d.readable
         THEN /\ arr' = looped /\ Return          \* except OSError: return
         ELSE LET axis == IF d.tiles[1].rows > d.tiles[1].cols THEN 1 ELSE 0
                  joined == Concatenate(d.tiles, axis)
              IN  IF joined = None
                  THEN arr' = looped /\ Raise("ValueError")
                  ELSE arr' = joined /\ pc' = "normalize" /\ err' = err
    /\ UNCHANGED <<fs, oft, mode, todo, cur, mask, X, COMs, output, true_cells,
                   runs, history, visited, kept, render>>

\* Lines 235-240: assert arr is not None; the rescale to 0..255; the save
\* as Image.png.
NormalizeAndSave ==
    /\ pc = "normalize"
    /\ IF arr = None
       THEN Raise("AssertionError") /\ UNCHANGED <<arr, fs>>
       ELSE \E nanCast \in NanCastOutcomes :
              /\ arr' = Some(Rescale(The(arr), nanCast))
              /\ fs' = [fs EXCEPT ![cur].png = arr']
              /\ pc' = "outputs" /\ err' = err
    /\ UNCHANGED <<oft, mode, todo, cur, mask, X, COMs, output, true_cells,
                   runs, history, visited, kept, render>>

\* OutputFileType.any()
any(o) == "svg" \in o \/ "csv" \in o \/ "png" \in o

\* Line 256 with oft.any() false: count_section is over.
NoOutputs ==
    /\ pc = "outputs" /\ ~any(oft)
    /\ Return
    /\ UNCHANGED <<fs, oft, mode, todo, cur, locals, runs, history, visited,
                   kept, render>>

\* A faulty variant of CacheExists: the table is never found.
CacheNeverExists(d) == FALSE

\* Line 257: os.path.exists(output_csv)
CacheExists(d) == d.csv # None

\* Lines 257-258: true_cells = np.loadtxt(output_csv, ...).astype(np.int16)
LoadCache ==
    /\ pc = "outputs" /\ any(oft) /\ CacheExists(fs[cur])
    /\ LET got == loadtxt(The(fs[cur].csv)) IN
       IF got.err # None
       THEN Raise(The(got.err)) /\ UNCHANGED true_cells
       ELSE \E outcome \in Int16CastOutcomes :
              /\ true_cells' = Some(AsInt16(got.arr, outcome))
              /\ pc' = "detected" /\ err' = err
    /\ UNCHANGED <<fs, oft, mode, todo, cur, arr, mask, X, COMs, output,
                   runs, history, visited, kept, render>>

\* generate_border_and_mask: mask = file_to_array(path) > 128 (the border is
\* computed and dropped by the caller).
generate_border_and_mask(maskFile) ==
    Arr(maskFile.rows, maskFile.cols,
        [p \in Idx(maskFile.rows, maskFile.cols) |-> maskFile.at[p] > 128])

\* Lines 260-267.  The mismatch branch prints
\*     "Mask and image have different shape for " % directory
\* a format string without a conversion, so the % raises TypeError before
\* the `return` below it is reached.
LoadMask ==
    /\ pc = "outputs" /\ any(oft) /\ ~CacheExists(fs[cur])
    /\ IF fs[cur].maskPng = None
       THEN mask' = None /\ pc' = "propose" /\ err' = err
       ELSE /\ mask' = Some(generate_border_and_mask(The(fs[cur].maskPng)))
            /\ IF Shape(The(arr)) # Shape(The(mask'))
               THEN Raise("TypeError")
               ELSE pc' = "propose" /\ err' = err
    /\ UNCHANGED <<fs, oft, mode, todo, cur, arr, X, COMs, output, true_cells,
                   runs, history, visited, kept, render>>

\* Line 270: X, COMs = local_minima_generate_points(arr, mask)
Propose ==
    /\ pc = "propose"
    /\ LET got == local_minima_generate_points(The(arr), mask) IN
       IF got.err # None
       THEN Raise(The(got.err)) /\ UNCHANGED <<X, COMs>>
       ELSE X' = got.X /\ COMs' = got.minima /\ pc' = "verify" /\ err' = err
    /\ UNCHANGED <<fs, oft, mode, todo, cur, arr, mask, output, true_cells,
                   runs, history, visited, kept, render>>

\* A faulty variant of PredictBatches: model.predict is called for each patch
\* on its own.
PredictEachPatch(batch) == [i \in 1 .. Len(batch) |-> <<batch[i]>>]

\* What is handed to model.predict, and how often: the whole X, once.
PredictBatches(batch) == <<batch>>

\* Lines 274-277: output = model.predict(X); the threshold.  The classifier
\* gives each patch of the batch any score.
Verify ==
    /\ pc = "verify"
    /\ LET calls == PredictBatches(X) IN
       /\ predictCalls' = predictCalls + Len(calls)
       /\ predictBatch' = calls[Len(calls)]
    /\ \E scores \in [1 .. Len(X) -> ScoreSamples] :
         /\ output' = scores
         /\ true_cells' = Some(SelectTrueCells(COMs, scores))
    /\ pc' = "detected" /\ err' = err
    /\ UNCHANGED <<fs, oft, mode, todo, cur, arr, mask, X, COMs,
                   runs, written, cached, prior, visited, kept, render>>

\* Line 278: print("%s boutons detected" % true_cells.shape[0])
Detected ==
    /\ pc = "detected"
    /\ IF HasShape0(The(true_cells)) THEN pc' = "svg" /\ err' = err
       ELSE Raise("IndexError")
    /\ UNCHANGED <<fs, oft, mode, todo, cur, locals, runs, history, visited,
                   kept, render>>

\* The loops of lines 281 and 286 index true_cells[i, 1]: an IndexError on
\* the first turn unless true_cells is 2-D.
LoopRaises(cells) == Shape0(cells) > 0 /\ ~CanIndex2(cells)

\* Lines 279-283: Boutons.svg, unless it exists.
RenderSVG ==
    /\ pc = "svg"
    /\ IF "svg" \in oft /\ fs[cur].svg = None
       THEN IF LoopRaises(The(true_cells))
            THEN Raise("IndexError") /\ UNCHANGED <<fs, written>>
            ELSE /\ fs' = [fs EXCEPT ![cur].svg =
                              Some(SVGFile(Shape(The(arr)), The(true_cells).data))]
                 /\ written' = written \cup {"svg"}
                 /\ pc' = "png" /\ err' = err
       ELSE pc' = "png" /\ err' = err /\ UNCHANGED <<fs, written>>
    /\ UNCHANGED <<oft, mode, todo, cur, locals, runs, predictCalls, predictBatch,
                   cached, prior, visited, kept, render>>

\* Lines 284-288: Boutons.png.
RenderPNG ==
    /\ pc = "png"
    /\ IF "png" \in oft
       THEN IF LoopRaises(The(true_cells))
            THEN /\ Raise("IndexError")
                 /\ canvas' = CreatePNG(Shape(The(arr)))
                 /\ UNCHANGED <<fs, written, symbols>>
            ELSE /\ canvas' = AddSymbols(CreatePNG(Shape(The(arr))), The(true_cells).data)
                 /\ symbols' = {<<The(true_cells).data[i][2], The(true_cells).data[i][1]>> :
                                    i \in 1 .. Shape0(The(true_cells))}
                 /\ fs' = [fs EXCEPT ![cur].boutonsPng = Some(PNGFile(canvas'))]
                 /\ written' = written \cup {"png"}
                 /\ pc' = "csv" /\ err' = err
       ELSE pc' = "csv" /\ err' = err /\ UNCHANGED <<fs, written, render>>
    /\ UNCHANGED <<oft, mode, todo, cur, locals, runs, predictCalls, predictBatch,
                   cached, prior, visited, kept>>

\* A faulty variant of WriteCsv: the table is not written.
WriteCsvNowhere(d, file) == d

\* The file np.savetxt leaves at output_csv.
WriteCsv(d, file) == [d EXCEPT !.csv = Some(file)]

\* Lines 289-291: BoutonCount.csv, and the end of count_section.
RenderCSV ==
    /\ pc = "csv"
    /\ IF "csv" \in oft
       THEN LET put == savetxt(The(true_cells)) IN
            IF put.err # None
            THEN Raise(The(put.err)) /\ UNCHANGED <<fs, written, kept>>
            ELSE /\ fs' = [fs EXCEPT ![cur] = WriteCsv(@, put.file)]
                 /\ written' = written \cup {"csv"}
                 /\ done' = [done EXCEPT ![cur] = @ \cup {"any", "csv"}]
                 /\ saved' = [saved EXCEPT ![cur] = true_cells]
                 /\ Return
       ELSE /\ done' = [done EXCEPT ![cur] = @ \cup {"any"}]
            /\ Return /\ UNCHANGED <<fs, written, saved>>
    /\ UNCHANGED <<oft, mode, todo, cur, locals, runs, predictCalls, predictBatch,
                   cached, prior, visited, render>>

Next ==
    \/ \E flags \in SUBSET OutputFormats : StartBrain(flags)
    \/ \E flags \in SUBSET OutputFormats, s \in Sections : StartSection(flags, s)
    \/ CountBrain
    \/ LoadImages
    \/ NormalizeAndSave
    \/ NoOutputs
    \/ LoadCache
    \/ LoadMask
    \/ Propose
    \/ Verify
    \/ Detected
    \/ RenderSVG
    \/ RenderPNG
    \/ RenderCSV

Spec == Init /\ [][Next]_vars

\* ------------------------------------------------- the detector on its own

\* Bounds of the images the detector is run on: up to MaxSide pixels per
\* side with up to MaxDark dark pixels, and strips of up to MaxSpots spots.
MaxSide == 4

MaxDark == 2

MaxSpots == 3

\* The subsets of S of at most k elements.
RECURSIVE UpTo(_, _)
UpTo(k, S) ==
    IF k = 0 THEN {{}}
    ELSE LET less == UpTo(k - 1, S)
         IN  less \cup {D \cup {p} : D \in less, p \in S}

DarkSets(n, m) == UpTo(MaxDark, Idx(n, m))

SmallImages ==
    UNION {{Img(n, m, D, 0, 255) : D \in DarkSets(n, m)} :
                n \in 1 .. MaxSide, m \in 1 .. MaxSide}

\* A strip with k dark spots, four columns apart.
Strip(k) == Img(3, 4 * k - 1, {<<1, 4 * j - 3>> : j \in 1 .. k}, 0, 255)

\* The mask files tried with an image: none, all white, a chequerboard.
MaskFiles(a) ==
    {None,
     Some(Img(a.rows, a.cols, {}, 0, 255)),
     Some(Img(a.rows, a.cols, {p \in Idx(a.rows, a.cols) : (p[1] + p[2]) % 2 = 0}, 0, 255))}

\* count_section at line 270, for one section whose image (after the
\* rescale) and mask are any of the above.
InitDetect ==
    /\ Fresh
    /\ \E a \in SmallImages \cup {Strip(k) : k \in 1 .. MaxSpots} :
       \E maskFile \in (IF a.rows = 3 /\ a.cols > MaxSide THEN {None} ELSE MaskFiles(a)) :
         /\ arr = Some(a)
         /\ mask = IF maskFile = None THEN None
                   ELSE Some(generate_border_and_mask(The(maskFile)))
         /\ fs = [s \in Sections |->
                     Dir(Some(a), None, None, <<>>, TRUE, None, maskFile)]
    /\ oft = {"csv"} /\ cur = 1 /\ pc = "propose" /\ canvas = NoCanvas

NextDetect == Propose \/ Verify

SpecDetect == InitDetect /\ [][NextDetect]_vars

\* ----------------------------------------------- the raster renderer alone

\* Bounds: canvases of MaxCanvas - 2 to MaxCanvas pixels per side (the
\* smallest holds no whole disk), and up to MaxSymbols different locations.
MaxCanvas == 8

MaxSymbols == 2

\* Lines 285-287, one turn of the loop at a time: png = CreatePNG(...), then
\* add_symbol for a location of the image.
InitPNG ==
    /\ Fresh
    /\ \E n \in MaxCanvas - 2 .. MaxCanvas, m \in MaxCanvas - 2 .. MaxCanvas :
         /\ arr = Some(Img(n, m, {}, 0, 255))
         /\ canvas = CreatePNG(<<n, m>>)
         /\ fs = [s \in Sections |->
                     Dir(Some(Img(n, m, {}, 0, 255)), None, None, <<>>, TRUE, None, None)]
    /\ mask = None /\ oft = {"png"} /\ cur = 1 /\ pc = "png"

AddSymbol ==
    /\ pc = "png" /\ Cardinality(symbols) < MaxSymbols
    /\ \E row \in 0 .. canvas.x - 1, col \in 0 .. canvas.y - 1 :
         /\ canvas' = add_symbol(canvas, <<col, row>>)
         /\ symbols' = symbols \cup {<<col, row>>}
    /\ err' = err
    /\ UNCHANGED <<fs, oft, mode, todo, cur, pc, locals, runs, history, visited, kept>>

\* Line 288: png.output()
OutputPNG ==
    /\ pc = "png"
    /\ fs' = [fs EXCEPT ![cur].boutonsPng = Some(PNGFile(canvas))]
    /\ written' = written \cup {"png"}
    /\ pc' = "csv" /\ err' = err
    /\ UNCHANGED <<oft, mode, todo, cur, locals, runs, predictCalls, predictBatch,
                   cached, prior, visited, kept, render>>

NextPNG == AddSymbol \/ OutputPNG

SpecPNG == InitPNG /\ [][NextPNG]_vars

\* ===================================================================== claims

\* Inside a call of count_section.
InCall == pc \in {"load", "normalize", "outputs", "propose", "verify", "detected",
                  "svg", "png", "csv", "returned", "crashed"} /\ cur # 0

\* The call has reached the rendering of line 278 and after.
Rendering == pc \in {"detected", "svg", "png", "csv"}

\* C1: when BoutonCount.csv exists as count_section starts and a format is
\* requested, the accepted candidates are the ones read from that file, the
\* proposal, extraction and verification are never entered and model.predict
\* is not called in that call.
C1_CacheSkipsDetection ==
    (InCall /\ cached /\ any(oft)) =>
        /\ predictCalls = 0
        /\ pc \notin {"propose", "verify"}
        /\ X = <<>> /\ COMs = <<>> /\ output = <<>>
        /\ Rendering =>
              \E outcome \in Int16CastOutcomes :
                  true_cells = Some(AsInt16(loadtxt(The(fs[cur].csv)).arr, outcome))

C1_Witness ==
    /\ cached /\ any(oft) /\ pc = "returned"
    /\ written # {} /\ predictCalls = 0 /\ true_cells # None

\* C2, as claimed: once a call of count_section with some format requested
\* has run to its end for a section, no later call for that section calls
\* model.predict.
C2_Original == (InCall /\ "any" \in prior) => predictCalls = 0

\* C2, amended: once a call of count_section with csv among the requested
\* formats has run to its end for a section, no later call for that
\* section, whatever formats it requests, calls model.predict.
C2_CsvRunStopsClassifier == (InCall /\ "csv" \in prior) => predictCalls = 0

C2_Witness ==
    /\ InCall /\ "csv" \in prior /\ pc = "returned"
    /\ "csv" \notin oft /\ written # {} /\ predictCalls = 0

\* count_brain has directories left to give to count_section.
DirectoriesLeft ==
    mode = "brain" /\ \E i \in 1 .. Len(todo) : fs[todo[i]].isdir

\* The section's Mask.png and its image differ in shape.
MaskMismatch ==
    /\ fs[cur].maskPng # None /\ arr # None
    /\ Shape(The(fs[cur].maskPng)) # Shape(The(arr))

\* C3: a section whose mask and image differ in shape (and that has no
\* table yet) is given up before the proposal, without a model.predict call
\* and without an output, and count_brain goes on with the next directory:
\* the program is not ended by it.
C3_Original ==
    (/\ InCall /\ pc \notin {"load", "normalize"} /\ ~cached /\ any(oft)
     /\ MaskMismatch /\ DirectoriesLeft) =>
        /\ predictCalls = 0 /\ written = {}
        /\ pc \in {"outputs", "returned"}

\* C4: a section that fails because it has no image, because its image is
\* flat or because the proposal finds no candidate (the AssertionErrors of
\* lines 236 and 121) does not end the program, count_brain goes on; and a
\* section whose candidates are all rejected is rendered with an empty list.
C4_Original ==
    /\ ~(pc = "crashed" /\ err = Some("AssertionError") /\ DirectoriesLeft)
    /\ (pc \in {"svg", "png", "csv", "returned"} /\ predictCalls = 1
            /\ \A i \in 1 .. Len(output) : output[i] <= Threshold)
          => true_cells = Some(NdArray(2, <<>>))

\* C7: past the rescale the image spans exactly 0..255, and a flat image
\* has been refused there: it reaches neither the proposal, the
\* verification nor the rendering.
C7_Original ==
    (pc \in {"propose", "verify", "detected", "svg", "png", "csv"}) =>
        /\ ~IsFlat(The(arr))
        /\ SetMin(Values(The(arr))) = 0
        /\ SetMax(Values(The(arr))) = 255

\* C9: model.predict is called at most once in a call of count_section; the
\* one call comes after the proposal and the extraction, is given the whole
\* batch, one patch per candidate, and comes before every output of the
\* call is written.
C9_OneBatchCall ==
    /\ predictCalls <= 1
    /\ predictCalls = 1 =>
          /\ ~cached /\ any(oft) /\ Len(COMs) > 0
          /\ predictBatch = X
          /\ Len(X) = Len(COMs)
          /\ \A i \in 1 .. Len(X) : X[i] = PatchAt(The(arr), COMs[i])
          /\ pc \notin {"load", "normalize", "outputs", "propose", "verify"}
    /\ pc \in {"load", "normalize", "outputs", "propose", "verify"} => written = {}
    /\ (written # {} /\ ~cached) => predictCalls = 1

C9_Witness ==
    /\ pc = "returned" /\ predictCalls = 1 /\ Len(X) = 2
    /\ written = {"svg", "png", "csv"}

\* C10: the list a later call loads from the table equals the list the
\* earlier call saved: as many rows, and the same (row, column) pairs.
C10_Original ==
    (InCall /\ cached /\ Rendering /\ saved[cur] # None) =>
        LET was == The(saved[cur])
            now == The(true_cells)
        IN  /\ Shape0(now) = Shape0(was)
            /\ Shape0(was) > 0 => (now.ndim = 2 /\ now.data = was.data)

\* C5: the accepted list holds exactly the candidates whose score is above
\* 0.80 (a score of 0.80 is rejected), in the candidates' order, and the
\* score of a candidate is the score of the patch cut around it.
C5_StrictThreshold ==
    pc = "detected" =>
        LET cells == The(true_cells).data
            above == {i \in 1 .. Len(COMs) : output[i] > Threshold}
        IN  /\ Len(output) = Len(COMs) /\ Len(X) = Len(COMs)
            /\ The(true_cells).ndim = 2
            /\ Len(cells) = Cardinality(above)
            /\ \A i \in 1 .. Len(COMs) :
                  (i \in above) <=> (\E j \in 1 .. Len(cells) : cells[j] = COMs[i])
            /\ \A j, k \in 1 .. Len(cells) : j < k =>
                  \E a, b \in 1 .. Len(COMs) :
                      a < b /\ COMs[a] = cells[j] /\ COMs[b] = cells[k]
            /\ \A i \in 1 .. Len(X) : X[i] = PatchAt(The(arr), COMs[i])

C5_Witness ==
    /\ pc = "detected" /\ output = <<79, 80, 81>>
    /\ The(true_cells).data = <<COMs[3]>>

\* C6, as claimed: no candidate (x, y) has x < RADIUS, x >= width - RADIUS,
\* y < RADIUS or y >= height - RADIUS, x being the row and y the column the
\* patch is cut at, width the number of columns and height the number of
\* rows of the image.
C6_Original ==
    pc \in {"verify", "detected"} =>
        \A i \in 1 .. Len(COMs) :
            LET x == COMs[i][1]
                y == COMs[i][2]
                width == The(arr).cols
                height == The(arr).rows
            IN  ~(x < RADIUS \/ x >= width - RADIUS \/ y < RADIUS \/ y >= height - RADIUS)

\* C6, amended: no candidate (x, y) has x < RADIUS, x >= height - RADIUS,
\* y < RADIUS or y >= width - RADIUS; so the patch of every candidate lies
\* in the image and is SIZE x SIZE, and the extraction never fails.
C6_BorderExclusion ==
    /\ err # Some("ValueError")
    /\ pc \in {"verify", "detected"} =>
        \A i \in 1 .. Len(COMs) :
            LET x == COMs[i][1]
                y == COMs[i][2]
                width == The(arr).cols
                height == The(arr).rows
            IN  /\ ~(x < RADIUS \/ x >= height - RADIUS \/ y < RADIUS \/ y >= width - RADIUS)
                /\ 0 <= x - RADIUS /\ x + RADIUS <= height
                /\ 0 <= y - RADIUS /\ y + RADIUS <= width
                /\ Shape(X[i]) = <<SIZE, SIZE>>
                /\ \A q \in Idx(SIZE, SIZE) :
                      X[i].at[q] = The(arr).at[<<x - RADIUS + q[1], y - RADIUS + q[2]>>]

C6_Witness ==
    /\ pc = "verify" /\ mask # None
    /\ \E i \in 1 .. Len(COMs) : COMs[i][1] >= The(arr).cols - RADIUS

\* The disk of radius 3 around (row, col), and whether it lies in the canvas.
Disk(row, col) ==
    {q \in (row - 3 .. row + 3) \X (col - 3 .. col + 3) :
        (q[1] - row) * (q[1] - row) + (q[2] - col) * (q[2] - col) <= 9}

DiskInside(row, col, png) ==
    /\ 0 <= row - 3 /\ row + 3 <= png.x - 1
    /\ 0 <= col - 3 /\ col + 3 <= png.y - 1

=============================================================================
